---- MODULE Spec2Model ----
(***************************************************************************)
(* Model of compressvideo: the compression engine (pkg/compressor), the    *)
(* analysis cache (pkg/cache) and the helpers they use.                    *)
(*                                                                         *)
(*   Spec           the compression engine: CompressVideo, the single-pass *)
(*                  path and the segmented parallel path with its workers, *)
(*                  stderr monitors and progress aggregator                *)
(*   SpecCache      the analysis cache used by one caller at a time        *)
(*   SpecCacheConc  the analysis cache used by concurrent callers, one     *)
(*                  store statement per step                               *)
(***************************************************************************)
EXTENDS Integers, Sequences, FiniteSets, TLC

(***************************************************************************)
(* Bounds of the model.                                                    *)
(***************************************************************************)
\* number of segments / workers: min(runtime.NumCPU(), 8) on the host
NumSegments == 2
\* time= tokens the stderr monitors read during one compress call
MaxTokens == 1
\* time= tokens the stderr monitor reads during one single-pass call
MaxSingleTokens == 2

\* capacity of progressChan
ProgressChanCap == 100

Workers == 0 .. (NumSegments - 1)

\* percent values a time= token can parse to (after the cap at 100)
Percents == {0, 70, 100}
EarlyPercents == {40}

\* analysis.VideoFile.Duration and analysis.ContentType given to CompressVideo
Durations == {60, 90}
ContentTypes == {"Screencast", "LiveAction"}

VARIABLES
    \* ---- compression engine ----
    duration,              \* analysis.VideoFile.Duration
    contentType,           \* analysis.ContentType
    pc,                    \* position of the CompressVideo call
    result,                \* error returned by the compress call
    segmentDir,            \* "none" | "exists" | "removed"
    listFile,              \* lines written to segments.txt, in file order
    fdmu,                  \* holder of listFile's write lock, -1 when free
    wpc,                   \* position of each segment worker goroutine
    errorChan,             \* buffered channel of worker errors
    progressChan,          \* buffered channel of packed progress updates
    chanClosed,            \* close(progressChan) has run
    mpc,                   \* position of each stderr monitor goroutine
    reads,                 \* tokens the monitors have read so far
    percentComplete,       \* percent parsed by each monitor, not yet reported
    lastProgressReported,  \* per monitor
    apc,                   \* position of the aggregator goroutine
    segmentProgress,       \* the aggregator's per-segment percents
    sink,                  \* the value last passed to progress.Update, -1 before the first
    panicked,              \* the process is gone: a goroutine panicked, or
                           \* the process was terminated
    settingsHeap,          \* the settings maps in memory, by reference
    segmentSettings,       \* each worker's segmentSettings: a reference
    \* ---- analysis cache ----
    files,                 \* the video files on disk: path -> size, mod time
    video_analysis,        \* the rows of table video_analysis
    MaxAgeHours,           \* vc.MaxAgeHours
    now,                   \* the clock
    last,                  \* the cache operation that completed last
    prev,                  \* the cache operation that completed before it
    cpc,                   \* concurrent callers: position inside Get
    fingerprint,           \* concurrent callers: Get's local fingerprint
    dateCached,            \* concurrent callers: Get's local dateCached
    \* ---- per-file pipeline (processSingleFile) ----
    ppc,                   \* position of the processSingleFile call
    inputFile,             \* its inputFile
    useCache,              \* videoCache != nil && useCache
    cacheUsed,             \* its cacheUsed
    analysis,              \* its analysis
    videoFile,             \* its videoFile
    warnings,              \* what it passed to logger.Warning
    pipelineErr,           \* the error it returned
    \* ---- process environment ----
    zone,                  \* time.Local of the running process
    \* ---- content analyzer ----
    anpc,                  \* position: idle, analyzed, settings
    build,                 \* which GetCompressionSettings the build holds
    videoInfo,             \* videoFile.VideoInfo: Width, Height, FPS, IsHDR
    videoAnalysis,         \* the VideoAnalysis that AnalyzeVideo fills
    qualityLevel,          \* the quality flag, validated to 1..5
    settings,              \* the map GetCompressionSettings returns
    presetName             \* the preset flag given to CompressVideo

engineVars == <<duration, contentType, pc, result, segmentDir, listFile, fdmu,
                wpc, errorChan, progressChan, chanClosed, mpc, reads,
                percentComplete, lastProgressReported, apc, segmentProgress,
                sink, panicked, settingsHeap, segmentSettings>>

cacheVars == <<files, video_analysis, MaxAgeHours, now, last, prev, zone>>
callerVars == <<cpc, fingerprint, dateCached>>

pipeVars == <<ppc, inputFile, useCache, cacheUsed, analysis, videoFile,
              warnings, pipelineErr>>

analyzerVars == <<anpc, build, videoInfo, videoAnalysis, qualityLevel,
                  settings, presetName>>

vars == <<engineVars, cacheVars, callerVars, pipeVars, analyzerVars>>

\* an error value: what failed, in which segment's worker, whether it is the
\* encoder's non-zero exit, and how much of the encoder's stderr it carries
NoError == [kind |-> "nil", seg |-> -1, nonZeroExit |-> FALSE,
            stderr |-> "absent"]
Err(k, w) == [kind |-> k, seg |-> w, nonZeroExit |-> FALSE,
              stderr |-> "absent"]
\* the error made of cmd.Wait's error and the text d
ExitErr(k, w, d) == [kind |-> k, seg |-> w, nonZeroExit |-> TRUE,
                     stderr |-> d]

\* references to maps: the map CompressVideo was given, and the map
\* worker w makes
CallerRef == 0
CloneRef(w) == w + 1
NoRef == -1

\* the keys read by the parallel path; a missing key reads as ""
NoMap == [codec |-> "", force_key_frames |-> ""]
CallerSettings == [codec |-> "libx264", force_key_frames |-> ""]

EngineInit ==
    /\ settingsHeap = [r \in 0 .. NumSegments |->
                           IF r = CallerRef THEN CallerSettings ELSE NoMap]
    /\ segmentSettings = [w \in Workers |-> NoRef]
    /\ duration \in Durations
    /\ contentType \in ContentTypes
    /\ pc = "start"
    /\ result = [kind |-> "none", seg |-> -1, nonZeroExit |-> FALSE,
                 stderr |-> "absent"]
    /\ segmentDir = "none"
    /\ listFile = << >>
    /\ fdmu = -1
    /\ wpc = [w \in Workers |-> "idle"]
    /\ errorChan = << >>
    /\ progressChan = << >>
    /\ chanClosed = FALSE
    /\ mpc = [w \in Workers |-> "none"]
    /\ reads = 0
    /\ percentComplete = [w \in Workers |-> 0]
    /\ lastProgressReported = [w \in Workers |-> 0]
    /\ apc = "none"
    /\ segmentProgress = [w \in Workers |-> 0]
    /\ sink = -1
    /\ panicked = FALSE

\* the choice made on the duration alone
UseParallelByDurationOnly(d, ct) == d > 60

\* useParallelCompression
UseParallelCompression(d, ct) == d > 60 /\ ct # "Screencast"

\* the deferred removal left out: the directory stays as it is
DeferredRemoveAllMissing(dir) == dir

\* defer os.RemoveAll(segmentDir), run when compressVideoParallel returns
DeferredRemoveAll(dir) == IF dir = "exists" THEN "removed" ELSE dir

\* a return of the compress call with error e (NoError for nil)
Return(e) ==
    /\ pc' = "returned"
    /\ result' = e
    /\ segmentDir' = DeferredRemoveAll(segmentDir)

inputVars == <<duration, contentType>>
settingsVars == <<settingsHeap, segmentSettings>>
listVars == <<listFile, fdmu>>
chanVars == <<progressChan, chanClosed>>
monitorVars == <<mpc, reads, percentComplete, lastProgressReported>>
aggVars == <<apc, segmentProgress>>

\* CompressVideo: the choice between the two paths
CompressVideo ==
    /\ ~panicked
    /\ UNCHANGED <<cacheVars, callerVars, pipeVars, analyzerVars>>
    /\ pc = "start"
    /\ pc' = IF UseParallelCompression(duration, contentType)
             THEN "parallel" ELSE "single"
    /\ UNCHANGED <<inputVars, settingsVars,
                   result, segmentDir, listVars, wpc, errorChan,
                   chanVars, monitorVars, aggVars, sink, panicked>>

(***************************************************************************)
(* compressVideoParallel, main flow.                                       *)
(***************************************************************************)
\* vc.FFmpeg.GetVideoInfo(inputFile)
ParallelGetVideoInfo ==
    /\ ~panicked
    /\ UNCHANGED <<cacheVars, callerVars, pipeVars, analyzerVars>>
    /\ pc = "parallel"
    /\ \/ pc' = "mkdir" /\ UNCHANGED <<result, segmentDir>>
       \/ Return(Err("video_info", -1))
    /\ UNCHANGED <<inputVars, settingsVars,
                   listVars, wpc, errorChan, chanVars, monitorVars,
                   aggVars, sink, panicked>>

\* os.MkdirAll(segmentDir); defer os.RemoveAll(segmentDir)
MkdirAll ==
    /\ ~panicked
    /\ UNCHANGED <<cacheVars, callerVars, pipeVars, analyzerVars>>
    /\ pc = "mkdir"
    /\ \/ pc' = "split" /\ segmentDir' = "exists" /\ UNCHANGED result
       \/ Return(Err("mkdir", -1))
    /\ UNCHANGED <<inputVars, settingsVars,
                   listVars, wpc, errorChan, chanVars, monitorVars,
                   aggVars, sink, panicked>>

\* vc.splitVideo(inputFile, segmentDir, segmentDuration, numSegments)
SplitVideo ==
    /\ ~panicked
    /\ UNCHANGED <<cacheVars, callerVars, pipeVars, analyzerVars>>
    /\ pc = "split"
    /\ \/ pc' = "create_list" /\ UNCHANGED <<result, segmentDir>>
       \/ Return(Err("split", -1))
    /\ UNCHANGED <<inputVars, settingsVars,
                   listVars, wpc, errorChan, chanVars, monitorVars,
                   aggVars, sink, panicked>>

\* os.Create(listPath)
CreateListFile ==
    /\ ~panicked
    /\ UNCHANGED <<cacheVars, callerVars, pipeVars, analyzerVars>>
    /\ pc = "create_list"
    /\ \/ pc' = "spawn" /\ UNCHANGED <<result, segmentDir>>
       \/ Return(Err("create_list", -1))
    /\ UNCHANGED <<inputVars, settingsVars,
                   listVars, wpc, errorChan, chanVars, monitorVars,
                   aggVars, sink, panicked>>

\* make the channels, start the aggregator goroutine and one goroutine per segment
StartWorkers ==
    /\ ~panicked
    /\ UNCHANGED <<cacheVars, callerVars, pipeVars, analyzerVars>>
    /\ pc = "spawn"
    /\ pc' = "wait"
    /\ apc' = "running"
    /\ wpc' = [w \in Workers |-> "start"]
    /\ UNCHANGED <<inputVars, settingsVars,
                   result, segmentDir, listVars, errorChan,
                   chanVars, monitorVars, segmentProgress, sink, panicked>>

\* wg.Wait(); close(progressChan); listFile.Close()
WaitWorkers ==
    /\ ~panicked
    /\ UNCHANGED <<cacheVars, callerVars, pipeVars, analyzerVars>>
    /\ pc = "wait"
    /\ \A w \in Workers : wpc[w] = "done"
    /\ pc' = "select"
    /\ chanClosed' = TRUE
    /\ UNCHANGED <<inputVars, settingsVars,
                   result, segmentDir, listVars, wpc, errorChan,
                   progressChan, monitorVars, aggVars, sink, panicked>>

\* a select that always takes its default case
ErrorReadyNever(ch) == FALSE

\* case err := <-errorChan is ready when the buffer holds an error
ErrorReady(ch) == ch # << >>

\* select { case err := <-errorChan: return err; default: }; progress.Update(90)
CheckErrors ==
    /\ ~panicked
    /\ UNCHANGED <<cacheVars, callerVars, pipeVars, analyzerVars>>
    /\ pc = "select"
    /\ \/ /\ ErrorReady(errorChan)
          /\ Return(Head(errorChan))
          /\ errorChan' = Tail(errorChan)
          /\ UNCHANGED sink
       \/ /\ ~ErrorReady(errorChan)
          /\ pc' = "merge"
          /\ sink' = 90
          /\ UNCHANGED <<result, segmentDir, errorChan>>
    /\ UNCHANGED <<inputVars, settingsVars,
                   listVars, wpc, chanVars, monitorVars, aggVars,
                   panicked>>

\* vc.mergeSegments(listPath, outputFile, codec); progress.Update(100); return nil
MergeSegments ==
    /\ ~panicked
    /\ UNCHANGED <<cacheVars, callerVars, pipeVars, analyzerVars>>
    /\ pc = "merge"
    /\ \/ /\ Return(NoError)
          /\ sink' = 100
       \/ /\ Return(Err("merge", -1))
          /\ UNCHANGED sink
    /\ UNCHANGED <<inputVars, settingsVars,
                   listVars, wpc, errorChan, chanVars, monitorVars,
                   aggVars, panicked>>

ParallelMain ==
    \/ ParallelGetVideoInfo
    \/ MkdirAll
    \/ SplitVideo
    \/ CreateListFile
    \/ StartWorkers
    \/ WaitWorkers
    \/ CheckErrors
    \/ MergeSegments

(***************************************************************************)
(* The progress channel and its packed messages.                           *)
(***************************************************************************)
\* (spt.segmentID << 16) | progress
Pack(segmentID, progress) == segmentID * 65536 + progress
\* progressUpdate >> 16
SegmentIDOf(progressUpdate) == progressUpdate \div 65536
\* progressUpdate & 0xFFFF
ProgressValueOf(progressUpdate) == progressUpdate % 65536

\* spt.progressChan <- combinedProgress: blocks while the buffer is full,
\* panics when the channel is closed
CanSend == chanClosed \/ Len(progressChan) < ProgressChanCap
ReportProgress(segmentID, progress) ==
    IF chanClosed
    THEN /\ panicked' = TRUE
         /\ UNCHANGED progressChan
    ELSE /\ progressChan' = Append(progressChan, Pack(segmentID, progress))
         /\ UNCHANGED panicked

(***************************************************************************)
(* One segment worker: the goroutine started per segment, which runs       *)
(* compressSegment and then appends its line to the list file.             *)
(***************************************************************************)
\* the worker writes into the map it was given
SharedMap(w) == CallerRef

\* segmentSettings := make(map[string]string)
MakeMap(w) == CloneRef(w)

\* the goroutine's first statements: the clone of settings and the write of
\* force_key_frames; then compressSegment up to cmd.Start(): FindFFmpeg,
\* GetVideoInfo, StderrPipe and Start can each fail, before the monitor
\* goroutine exists
StartSegment(w) ==
    /\ ~panicked
    /\ UNCHANGED <<cacheVars, callerVars, pipeVars, analyzerVars>>
    /\ wpc[w] = "start"
    /\ LET ref == MakeMap(w)
           cloned == [settingsHeap EXCEPT ![ref] = settingsHeap[CallerRef]]
       IN /\ segmentSettings' = [segmentSettings EXCEPT ![w] = ref]
          /\ settingsHeap' =
                 [cloned EXCEPT ![ref].force_key_frames = "expr:eq(n,0)"]
    /\ \/ /\ wpc' = [wpc EXCEPT ![w] = "encoding"]
          /\ mpc' = [mpc EXCEPT ![w] = "reading"]
          /\ UNCHANGED errorChan
       \/ /\ wpc' = [wpc EXCEPT ![w] = "done"]
          /\ errorChan' = Append(errorChan, Err("segment", w))
          /\ UNCHANGED mpc
    /\ UNCHANGED <<inputVars, pc, result, segmentDir, listVars, chanVars,
                   reads, percentComplete, lastProgressReported, aggVars,
                   sink, panicked>>

\* cmd.Wait() returns: the encoder has exited, with status zero or not
CmdWait(w) ==
    /\ ~panicked
    /\ UNCHANGED <<cacheVars, callerVars, pipeVars, analyzerVars>>
    /\ wpc[w] = "encoding"
    /\ \/ /\ wpc' = [wpc EXCEPT ![w] = "report100"]
          /\ UNCHANGED errorChan
       \/ /\ wpc' = [wpc EXCEPT ![w] = "done"]
          /\ errorChan' = Append(errorChan, ExitErr("segment", w, "absent"))
    /\ UNCHANGED <<inputVars, settingsVars,
                   pc, result, segmentDir, listVars, chanVars,
                   monitorVars, aggVars, sink, panicked>>

\* progress.reportProgress(100) at the end of compressSegment
SegmentDone(w) ==
    /\ ~panicked
    /\ UNCHANGED <<cacheVars, callerVars, pipeVars, analyzerVars>>
    /\ wpc[w] = "report100"
    /\ CanSend
    /\ ReportProgress(w, 100)
    /\ wpc' = [wpc EXCEPT ![w] = "lock"]
    /\ UNCHANGED <<inputVars, settingsVars,
                   pc, result, segmentDir, listVars, errorChan,
                   chanClosed, monitorVars, aggVars, sink>>

\* a write that does not wait for the lock
WriteLockNotTaken(w, holder) == TRUE

\* listFile.WriteString(line): os.File serialises the writes on one file with
\* the write lock of its descriptor, taken before the bytes are written ...
WriteLock(w, holder) == holder = -1
ListWriteLock(w) ==
    /\ ~panicked
    /\ UNCHANGED <<cacheVars, callerVars, pipeVars, analyzerVars>>
    /\ wpc[w] = "lock"
    /\ WriteLock(w, fdmu)
    /\ fdmu' = w
    /\ wpc' = [wpc EXCEPT ![w] = "write"]
    /\ UNCHANGED <<inputVars, settingsVars,
                   pc, result, segmentDir, listFile, errorChan,
                   chanVars, monitorVars, aggVars, sink, panicked>>

\* ... then the line "file 'out_<w>.mp4'" is written and the lock released; a failed
\* write is sent to errorChan
ListWrite(w) ==
    /\ ~panicked
    /\ UNCHANGED <<cacheVars, callerVars, pipeVars, analyzerVars>>
    /\ wpc[w] = "write"
    /\ fdmu' = -1
    /\ \/ /\ listFile' = Append(listFile, w)
          /\ UNCHANGED errorChan
       \/ /\ errorChan' = Append(errorChan, Err("list_write", w))
          /\ UNCHANGED listFile
    /\ wpc' = [wpc EXCEPT ![w] = "done"]
    /\ UNCHANGED <<inputVars, settingsVars,
                   pc, result, segmentDir, chanVars, monitorVars,
                   aggVars, sink, panicked>>

(***************************************************************************)
(* The goroutine of compressSegment that reads the encoder's stderr.       *)
(***************************************************************************)
\* stderr.Read returns a buffer holding a time= token, parsed to a percent:
\* possible until cmd.Wait has closed the pipe
MonitorReadOf(w, percents) ==
    /\ ~panicked
    /\ UNCHANGED <<cacheVars, callerVars, pipeVars, analyzerVars>>
    /\ mpc[w] = "reading"
    /\ wpc[w] = "encoding"
    /\ reads < MaxTokens
    /\ \E p \in percents : percentComplete' = [percentComplete EXCEPT ![w] = p]
    /\ reads' = reads + 1
    /\ mpc' = [mpc EXCEPT ![w] = "parsed"]
    /\ UNCHANGED <<inputVars, settingsVars,
                   pc, result, segmentDir, listVars, wpc,
                   errorChan, chanVars, lastProgressReported, aggVars, sink,
                   panicked>>

MonitorRead(w) == MonitorReadOf(w, Percents)

\* the same read when the encoder is at 40% of its segment
MonitorReadEarly(w) == MonitorReadOf(w, EarlyPercents)

\* if percentComplete > lastProgressReported || percentComplete >= 100
SegmentThrottle(percent, reported) == percent > reported \/ percent >= 100

MonitorReport(w) ==
    /\ ~panicked
    /\ UNCHANGED <<cacheVars, callerVars, pipeVars, analyzerVars>>
    /\ UseParallelCompression(duration, contentType)
    /\ mpc[w] = "parsed"
    /\ IF SegmentThrottle(percentComplete[w], lastProgressReported[w])
       THEN /\ CanSend
            /\ ReportProgress(w, percentComplete[w])
            /\ lastProgressReported' =
                   [lastProgressReported EXCEPT ![w] = percentComplete[w]]
       ELSE UNCHANGED <<progressChan, panicked, lastProgressReported>>
    /\ mpc' = [mpc EXCEPT ![w] = "reading"]
    /\ percentComplete' = [percentComplete EXCEPT ![w] = 0]
    /\ UNCHANGED <<inputVars, settingsVars,
                   pc, result, segmentDir, listVars, wpc,
                   errorChan, chanClosed, reads, aggVars, sink>>

(***************************************************************************)
(* The aggregator goroutine.                                               *)
(***************************************************************************)
RECURSIVE SumTo(_, _)
SumTo(f, n) == IF n < 0 THEN 0 ELSE f[n] + SumTo(f, n - 1)

\* int64(float64(totalProgress) / float64(len(segments) * 100) * 90): the
\* product is computed in float64, where 0.7 * 90 is 62.99999999999999
AvgProgress(totalProgress, n) ==
    IF totalProgress * 10 = 7 * n * 100
    THEN 62
    ELSE (totalProgress * 90) \div (n * 100)

\* one iteration of "for progressUpdate := range progressChan"
AggregatorReceive ==
    /\ ~panicked
    /\ UNCHANGED <<cacheVars, callerVars, pipeVars, analyzerVars>>
    /\ apc = "running"
    /\ progressChan # << >>
    /\ LET progressUpdate == Head(progressChan)
           segmentID == SegmentIDOf(progressUpdate)
           progressValue == ProgressValueOf(progressUpdate)
           updated == [segmentProgress EXCEPT ![segmentID] = progressValue]
           avgProgress == AvgProgress(SumTo(updated, NumSegments - 1),
                                      NumSegments)
       IN /\ segmentProgress' = updated
          /\ sink' = IF avgProgress < 90 THEN avgProgress
                     ELSE sink
    /\ progressChan' = Tail(progressChan)
    /\ UNCHANGED <<inputVars, settingsVars,
                   pc, result, segmentDir, listVars, wpc,
                   errorChan, chanClosed, monitorVars, apc, panicked>>

\* the range loop ends when the channel is closed and drained
AggregatorExit ==
    /\ ~panicked
    /\ UNCHANGED <<cacheVars, callerVars, pipeVars, analyzerVars>>
    /\ apc = "running"
    /\ progressChan = << >>
    /\ chanClosed
    /\ apc' = "exited"
    /\ UNCHANGED <<inputVars, settingsVars,
                   pc, result, segmentDir, listVars, wpc,
                   errorChan, chanVars, monitorVars, segmentProgress, sink,
                   panicked>>

Worker(w) ==
    \/ StartSegment(w)
    \/ CmdWait(w)
    \/ SegmentDone(w)
    \/ ListWriteLock(w)
    \/ ListWrite(w)
    \/ MonitorRead(w)
    \/ MonitorReport(w)

(***************************************************************************)
(* compressVideoSingle: one encoder run, its stderr monitor goroutine      *)
(* (monitor 0) writing straight to the progress tracker.                   *)
(***************************************************************************)
\* FindFFmpeg, GetVideoInfo, StderrPipe, cmd.Start; go func() { ... }()
SingleStart ==
    /\ ~panicked
    /\ UNCHANGED <<cacheVars, callerVars, pipeVars, analyzerVars>>
    /\ pc = "single"
    /\ \/ /\ pc' = "single_wait"
          /\ mpc' = [mpc EXCEPT ![0] = "reading"]
          /\ UNCHANGED <<result, segmentDir>>
       \/ /\ Return(Err("start", -1))
          /\ UNCHANGED mpc
    /\ UNCHANGED <<inputVars, settingsVars,
                   listVars, wpc, errorChan, chanVars, reads,
                   percentComplete, lastProgressReported, aggVars, sink,
                   panicked>>

\* stderr.Read returns a buffer holding a time= token, parsed to a percent
SingleMonitorRead ==
    /\ ~panicked
    /\ UNCHANGED <<cacheVars, callerVars, pipeVars, analyzerVars>>
    /\ pc = "single_wait"
    /\ mpc[0] = "reading"
    /\ reads < MaxSingleTokens
    /\ \E p \in Percents : percentComplete' = [percentComplete EXCEPT ![0] = p]
    /\ reads' = reads + 1
    /\ mpc' = [mpc EXCEPT ![0] = "parsed"]
    /\ UNCHANGED <<inputVars, settingsVars,
                   pc, result, segmentDir, listVars, wpc,
                   errorChan, chanVars, lastProgressReported, aggVars, sink,
                   panicked>>

\* if percentComplete != lastProgressReported
SingleThrottle(percent, reported) == percent # reported

\* progress.Update(percentComplete); lastProgressReported = percentComplete
SingleMonitorReport ==
    /\ ~panicked
    /\ UNCHANGED <<cacheVars, callerVars, pipeVars, analyzerVars>>
    /\ ~UseParallelCompression(duration, contentType)
    /\ mpc[0] = "parsed"
    /\ IF SingleThrottle(percentComplete[0], lastProgressReported[0])
       THEN /\ sink' = percentComplete[0]
            /\ lastProgressReported' =
                   [lastProgressReported EXCEPT ![0] = percentComplete[0]]
       ELSE UNCHANGED <<sink, lastProgressReported>>
    /\ mpc' = [mpc EXCEPT ![0] = "reading"]
    /\ percentComplete' = [percentComplete EXCEPT ![0] = 0]
    /\ UNCHANGED <<inputVars, settingsVars,
                   pc, result, segmentDir, listVars, wpc,
                   errorChan, chanVars, reads, aggVars, panicked>>

\* stderrOutput.String() when cmd.Wait has returned an error: the monitor
\* goroutine at position m fills stderrOutput and is not waited for, and
\* cmd.Wait closes the pipe it reads from; while it handles an earlier
\* buffer the encoder's last output is not in stderrOutput
StderrOutputAtWait(m) ==
    IF m = "parsed" THEN {"partial"} ELSE {"partial", "complete"}

\* err = cmd.Wait(); on success progress.Update(100); return nil
SingleWait ==
    /\ ~panicked
    /\ UNCHANGED <<cacheVars, callerVars, pipeVars, analyzerVars>>
    /\ pc = "single_wait"
    /\ \/ /\ Return(NoError)
          /\ sink' = 100
       \/ /\ \E errorOutput \in StderrOutputAtWait(mpc[0]) :
                 Return(ExitErr("ffmpeg", -1, errorOutput))
          /\ UNCHANGED sink
    /\ UNCHANGED <<inputVars, settingsVars,
                   listVars, wpc, errorChan, chanVars, monitorVars,
                   aggVars, panicked>>

SinglePass ==
    \/ SingleStart
    \/ SingleMonitorRead
    \/ SingleMonitorReport
    \/ SingleWait

(***************************************************************************)
(* The analysis cache (VideoAnalysisCache) over its SQLite table           *)
(* video_analysis.                                                         *)
(*                                                                         *)
(* The clock counts in the unit MaxAgeHours is given in.  Every cache      *)
(* operation takes time: the clock is one later when it completes, so an   *)
(* entry read back is always older than zero.                              *)
(***************************************************************************)
\* the clock stops here
MaxTime == 5

\* MaxAgeHours set by NewVideoAnalysisCache
DefaultMaxAgeHours == 720
\* hours given to SetMaxAge (--cache-max-age, or the tests' MaxAgeHours = 0)
AgeChoices == {0, 1}

Paths == {"a.mp4", "b.mp4"}
Clients == {1, 2}

\* analyzer.VideoAnalysis and ffmpeg.VideoFile values given to Put
Analyses ==
    { [ContentType |-> "Animation", CompressionPotential |-> 70],
      [ContentType |-> "LiveAction", CompressionPotential |-> 50] }
VideoFiles ==
    { [Duration |-> 60, Width |-> 1920, Height |-> 1080, Codec |-> "h264"],
      [Duration |-> 65, Width |-> 1920, Height |-> 1080, Codec |-> "h264"] }
\* what Get returns beside found = false
NoAnalysis == [ContentType |-> "", CompressionPotential |-> 0]
NoVideoFile == [Duration |-> 0, Width |-> 0, Height |-> 0, Codec |-> ""]

\* vc.Enabled: set by NewVideoAnalysisCache; SetEnabled has no caller
Enabled == TRUE

\* the zones time.Local can be, with their offsets from UTC
Zones == {"UTC", "CET"}
ZoneOffset == [z \in Zones |-> IF z = "UTC" THEN 0 ELSE 1]

\* fileInfo.ModTime().String(): the wall clock reading in time.Local,
\* followed by the zone
ModTimeString(modTime, z) == <<modTime + ZoneOffset[z], z>>

\* GetVideoFingerprint: the md5 digest of the path, the size in decimal and
\* ModTime().String(); the digest of a different text is a different digest
GetVideoFingerprint(videoPath, fileInfo) ==
    <<videoPath, fileInfo.size, ModTimeString(fileInfo.modTime, zone)>>

\* json.Marshal / json.Unmarshal of the two records
MarshalAnalysis(a) ==
    <<"ContentType", a.ContentType,
      "CompressionPotential", a.CompressionPotential>>
\* an unmarshal that loses the numeric field
UnmarshalAnalysisLossy(data) ==
    [ContentType |-> data[2], CompressionPotential |-> 0]
UnmarshalAnalysis(data) ==
    [ContentType |-> data[2], CompressionPotential |-> data[4]]
MarshalVideoFile(v) ==
    <<"Duration", v.Duration, "Width", v.Width, "Height", v.Height,
      "Codec", v.Codec>>
UnmarshalVideoFile(data) ==
    [Duration |-> data[2], Width |-> data[4], Height |-> data[6],
     Codec |-> data[8]]

\* fmt.Sprintf("%dx%d", Width, Height)
Resolution(v) == <<v.Width, "x", v.Height>>

\* the row Put binds to its INSERT OR REPLACE
NewRow(videoPath, fileInfo, a, v, t) ==
    [id            |-> GetVideoFingerprint(videoPath, fileInfo),
     video_path    |-> videoPath,
     size_bytes    |-> fileInfo.size,
     mod_time      |-> fileInfo.modTime,
     date_cached   |-> t,
     analysis_data |-> MarshalAnalysis(a),
     video_info    |-> MarshalVideoFile(v),
     duration      |-> v.Duration,
     resolution    |-> Resolution(v),
     codec         |-> v.Codec,
     valid         |-> TRUE]

\* SELECT ... WHERE id = ? AND valid = TRUE
SelectValid(table, id) == {r \in table : r.id = id /\ r.valid}

\* a replace keyed on the path instead of the id
InsertOrReplaceByPath(table, row) ==
    {r \in table : r.video_path # row.video_path} \cup {row}
\* INSERT OR REPLACE INTO video_analysis: id is the primary key
InsertOrReplace(table, row) ==
    {r \in table : r.id # row.id} \cup {row}

\* DELETE FROM video_analysis WHERE id = ?
DeleteById(table, id) == {r \in table : r.id # id}

\* an invalidation that deletes the row
UpdateValidFalseDeletes(table, id) == {r \in table : r.id # id}
\* UPDATE video_analysis SET valid = FALSE WHERE id = ?
UpdateValidFalse(table, id) ==
    {IF r.id = id THEN [r EXCEPT !.valid = FALSE] ELSE r : r \in table}

\* an age counted in whole units, dropping the started one
TooOldWholeUnits(date, t, maxAge) == (t - date) - 1 > maxAge
\* time.Since(dateCached).Hours() > float64(vc.MaxAgeHours)
TooOld(date, t, maxAge) == t - date > maxAge

\* DELETE FROM video_analysis WHERE date_cached < cutoffTime,
\* cutoffTime = time.Now().Add(-MaxAgeHours hours)
DeleteExpired(table, t, maxAge) ==
    {r \in table : ~(r.date_cached < t - maxAge)}

\* the record kept of a completed cache operation
Op(name, videoPath, id, hit, expired, a, v, t) ==
    [op |-> name, path |-> videoPath, id |-> id, hit |-> hit,
     expired |-> expired, analysis |-> a, videoInfo |-> v, t |-> t,
     err |-> "nil", query |-> << >>, entries |-> << >>]
\* the record of a call that returned the error e
OpFailed(name, videoPath, id, expired, e, t) ==
    [Op(name, videoPath, id, FALSE, expired, NoAnalysis, NoVideoFile, t)
         EXCEPT !.err = e]
\* what can go wrong inside Get: os.Stat, the query's Scan, json.Unmarshal
GetFailures == {"none", "stat", "query", "unmarshal"}
\* what can go wrong inside Put: os.Stat, the INSERT's Exec
PutFailures == {"none", "stat", "exec"}
NoOp == Op("none", "", << >>, FALSE, FALSE, NoAnalysis, NoVideoFile, 0)

CacheInit ==
    /\ files = [p \in Paths |-> [size |-> 1, modTime |-> 0]]
    /\ video_analysis = {}
    /\ MaxAgeHours = DefaultMaxAgeHours
    /\ now = 1
    /\ last = NoOp
    /\ prev = NoOp
    /\ cpc = [c \in Clients |-> "idle"]
    /\ fingerprint = [c \in Clients |-> << >>]
    /\ dateCached = [c \in Clients |-> 0]
    /\ zone = "UTC"

\* one more completed operation
Completed(o) ==
    /\ last' = o
    /\ prev' = last

\* Put(videoPath, analysis, videoInfo): the call itself
PutCall(videoPath, a, v) ==
    /\ now < MaxTime
    /\ Enabled
    /\ \E failure \in PutFailures :
           IF failure = "none"
           THEN /\ video_analysis' =
                       InsertOrReplace(video_analysis,
                                       NewRow(videoPath, files[videoPath],
                                              a, v, now))
                /\ Completed(Op("Put", videoPath,
                                GetVideoFingerprint(videoPath,
                                                    files[videoPath]),
                                FALSE, FALSE, a, v, now))
           ELSE /\ UNCHANGED video_analysis
                /\ Completed(OpFailed("Put", videoPath, << >>, FALSE,
                                      failure, now))
    /\ now' = now + 1
    /\ UNCHANGED <<files, MaxAgeHours, zone, engineVars, callerVars>>

\* Get(videoPath): the call itself
GetCall(videoPath) ==
    /\ now < MaxTime
    /\ Enabled
    /\ \E failure \in GetFailures :
         LET id == GetVideoFingerprint(videoPath, files[videoPath])
             found == SelectValid(video_analysis, id)
             expired == \E r \in video_analysis :
                            r.id = id /\ TooOld(r.date_cached, now, MaxAgeHours)
         IN IF failure = "stat"
            THEN /\ UNCHANGED video_analysis
                 /\ Completed(OpFailed("Get", videoPath, << >>, FALSE,
                                       failure, now))
            ELSE IF failure = "query"
            THEN /\ UNCHANGED video_analysis
                 /\ Completed(OpFailed("Get", videoPath, id, expired,
                                       failure, now))
            ELSE IF found = {}
            THEN /\ UNCHANGED video_analysis
                 /\ Completed(Op("Get", videoPath, id, FALSE, expired,
                                 NoAnalysis, NoVideoFile, now))
            ELSE LET row == CHOOSE r \in found : TRUE
                 IN IF TooOld(row.date_cached, now, MaxAgeHours)
                    THEN /\ video_analysis' =
                                UpdateValidFalse(video_analysis, id)
                         /\ Completed(Op("Get", videoPath, id, FALSE, expired,
                                         NoAnalysis, NoVideoFile, now))
                    ELSE IF failure = "unmarshal"
                    THEN /\ UNCHANGED video_analysis
                         /\ Completed(OpFailed("Get", videoPath, id, expired,
                                               failure, now))
                    ELSE /\ UNCHANGED video_analysis
                         /\ Completed(Op("Get", videoPath, id, TRUE, expired,
                                         UnmarshalAnalysis(row.analysis_data),
                                         UnmarshalVideoFile(row.video_info),
                                         now))
    /\ now' = now + 1
    /\ UNCHANGED <<files, MaxAgeHours, zone, engineVars, callerVars>>

\* Put and Get called on their own
Put(videoPath, a, v) ==
    PutCall(videoPath, a, v) /\ UNCHANGED <<pipeVars, analyzerVars>>
Get(videoPath) == GetCall(videoPath) /\ UNCHANGED <<pipeVars, analyzerVars>>

\* InvalidateByPath(videoPath)
InvalidateByPath(videoPath) ==
    /\ now < MaxTime
    /\ Enabled
    /\ LET id == GetVideoFingerprint(videoPath, files[videoPath])
       IN /\ video_analysis' = DeleteById(video_analysis, id)
          /\ Completed(Op("InvalidateByPath", videoPath, id, FALSE, FALSE,
                          NoAnalysis, NoVideoFile, now))
    /\ now' = now + 1
    /\ UNCHANGED <<files, MaxAgeHours, zone, engineVars, callerVars, pipeVars,
                   analyzerVars>>

\* CleanExpiredEntries()
CleanExpiredEntries ==
    /\ now < MaxTime
    /\ Enabled
    /\ video_analysis' = DeleteExpired(video_analysis, now, MaxAgeHours)
    /\ Completed(Op("CleanExpiredEntries", "", << >>, FALSE, FALSE,
                    NoAnalysis, NoVideoFile, now))
    /\ now' = now + 1
    /\ UNCHANGED <<files, MaxAgeHours, zone, engineVars, callerVars, pipeVars,
                   analyzerVars>>

\* the cache command with --clear-all: DELETE FROM video_analysis
ClearAll ==
    /\ now < MaxTime
    /\ video_analysis' = {}
    /\ Completed(Op("ClearAll", "", << >>, FALSE, FALSE,
                    NoAnalysis, NoVideoFile, now))
    /\ now' = now + 1
    /\ UNCHANGED <<files, MaxAgeHours, zone, engineVars, callerVars, pipeVars,
                   analyzerVars>>

\* SetMaxAge(hours)
SetMaxAge(hours) ==
    /\ MaxAgeHours # hours
    /\ MaxAgeHours' = hours
    /\ Completed(Op("SetMaxAge", "", << >>, FALSE, FALSE,
                    NoAnalysis, NoVideoFile, now))
    /\ UNCHANGED <<files, video_analysis, now, zone, engineVars, callerVars,
                   pipeVars,
                   analyzerVars>>

\* the file at videoPath is overwritten: its modification time changes
ModifyFile(videoPath) ==
    /\ now < MaxTime
    /\ files' = [files EXCEPT ![videoPath].modTime = now]
    /\ Completed(Op("ModifyFile", videoPath, << >>, FALSE, FALSE,
                    NoAnalysis, NoVideoFile, now))
    /\ now' = now + 1
    /\ UNCHANGED <<video_analysis, MaxAgeHours, zone, engineVars, callerVars,
                   pipeVars,
                   analyzerVars>>

\* time passes between two operations
Tick ==
    /\ now < MaxTime
    /\ now' = now + 1
    /\ UNCHANGED <<files, video_analysis, MaxAgeHours, last, prev,
                   zone, engineVars, callerVars, pipeVars,
                   analyzerVars>>

NextCache ==
    \/ \E p \in Paths, a \in Analyses, v \in VideoFiles : Put(p, a, v)
    \/ \E p \in Paths : Get(p)
    \/ \E p \in Paths : InvalidateByPath(p)
    \/ CleanExpiredEntries
    \/ ClearAll
    \/ \E h \in AgeChoices : SetMaxAge(h)
    \/ \E p \in Paths : ModifyFile(p)
    \/ Tick

(***************************************************************************)
(* The cache used by several callers at once.  One SQL statement is        *)
(* atomic; Get is two statements, its SELECT and, for an entry found too   *)
(* old, its UPDATE.                                                        *)
(***************************************************************************)
\* Put by caller c: one INSERT OR REPLACE
ConcPut(c, videoPath, a, v) ==
    /\ now < MaxTime
    /\ Enabled
    /\ cpc[c] = "idle"
    /\ video_analysis' =
           InsertOrReplace(video_analysis,
                           NewRow(videoPath, files[videoPath], a, v, now))
    /\ now' = now + 1
    /\ UNCHANGED <<files, MaxAgeHours, last, prev, zone, engineVars,
                   callerVars, pipeVars,
                   analyzerVars>>

\* Get by caller c, up to its age check
GetSelect(c, videoPath) ==
    /\ now < MaxTime
    /\ Enabled
    /\ cpc[c] = "idle"
    /\ LET id == GetVideoFingerprint(videoPath, files[videoPath])
           found == SelectValid(video_analysis, id)
       IN IF found = {}
          THEN UNCHANGED callerVars
          ELSE LET row == CHOOSE r \in found : TRUE
               IN IF TooOld(row.date_cached, now, MaxAgeHours)
                  THEN /\ cpc' = [cpc EXCEPT ![c] = "invalidate"]
                       /\ fingerprint' = [fingerprint EXCEPT ![c] = id]
                       /\ dateCached' =
                              [dateCached EXCEPT ![c] = row.date_cached]
                  ELSE UNCHANGED callerVars
    /\ now' = now + 1
    /\ UNCHANGED <<files, video_analysis, MaxAgeHours, last, prev, zone,
                   engineVars, pipeVars,
                   analyzerVars>>

\* Get by caller c: UPDATE ... SET valid = FALSE WHERE id = ?, return miss
GetInvalidate(c) ==
    /\ cpc[c] = "invalidate"
    /\ video_analysis' = UpdateValidFalse(video_analysis, fingerprint[c])
    /\ cpc' = [cpc EXCEPT ![c] = "idle"]
    /\ UNCHANGED <<files, MaxAgeHours, now, last, prev, zone, engineVars,
                   fingerprint, dateCached, pipeVars,
                   analyzerVars>>

NextCacheConc ==
    \/ \E c \in Clients, p \in Paths, a \in Analyses, v \in VideoFiles :
           ConcPut(c, p, a, v)
    \/ \E c \in Clients, p \in Paths : GetSelect(c, p)
    \/ \E c \in Clients : GetInvalidate(c)
    \/ Tick

(***************************************************************************)
(* The cache across runs of the program: between two runs the file can be  *)
(* replaced and the process's time zone can differ.                        *)
(***************************************************************************)
\* sizes and modification times a replaced file can have
Sizes == {1, 2}
ModTimes == {0, 1}

\* the file at videoPath is replaced by one of the given size and
\* modification time (written anew, or restored with its old time)
OverwriteFile(videoPath, size, modTime) ==
    /\ now < MaxTime
    /\ modTime # files[videoPath].modTime
    /\ files' = [files EXCEPT
                   ![videoPath] = [size |-> size, modTime |-> modTime]]
    /\ Completed(Op("OverwriteFile", videoPath, << >>, FALSE, FALSE,
                    NoAnalysis, NoVideoFile, now))
    /\ now' = now + 1
    /\ UNCHANGED <<video_analysis, MaxAgeHours, zone, engineVars, callerVars,
                   pipeVars,
                   analyzerVars>>

\* the next run of the program has another time.Local
ChangeZone(z) ==
    /\ now < MaxTime
    /\ z # zone
    /\ zone' = z
    /\ Completed(Op("ChangeZone", "", << >>, FALSE, FALSE,
                    NoAnalysis, NoVideoFile, now))
    /\ now' = now + 1
    /\ UNCHANGED <<files, video_analysis, MaxAgeHours, engineVars,
                   callerVars, pipeVars,
                   analyzerVars>>

NextFingerprint ==
    \/ \E p \in Paths, a \in Analyses, v \in VideoFiles : Put(p, a, v)
    \/ \E p \in Paths : Get(p)
    \/ \E p \in Paths, sz \in Sizes, m \in ModTimes : OverwriteFile(p, sz, m)
    \/ \E z \in Zones : ChangeZone(z)
    \/ Tick

(***************************************************************************)
(* FindSimilarVideos.                                                      *)
(***************************************************************************)
\* LIMIT 5
SimilarLimit == 5

\* video files put into the cache where similar ones are looked for
SimilarVideoFiles ==
    VideoFiles \cup
        { [Duration |-> 60, Width |-> 1280, Height |-> 720, Codec |-> "hevc"] }
\* the arguments of the lookups: tolerance in percent
SimilarResolutions == {Resolution(v) : v \in SimilarVideoFiles}
SimilarCodecs == {v.Codec : v \in SimilarVideoFiles}
SimilarDurations == {60}
Tolerances == {5, 10}

\* duration BETWEEN duration * (1.0 - tolerance) AND duration * (1.0 + tolerance)
DurationBetween(rowDuration, d, tol) ==
    /\ d * (100 - tol) <= rowDuration * 100
    /\ rowDuration * 100 <= d * (100 + tol)

\* the WHERE clause of the query
SimilarRows(table, resolution, d, codec, tol) ==
    {r \in table : /\ r.resolution = resolution
                   /\ DurationBetween(r.duration, d, tol)
                   /\ r.codec = codec
                   /\ r.valid}

\* ORDER BY date_cached DESC
RECURSIVE OrderByDateCachedDesc(_)
OrderByDateCachedDesc(rows) ==
    IF rows = {} THEN << >>
    ELSE LET first == CHOOSE r \in rows :
                          \A q \in rows : q.date_cached <= r.date_cached
         IN <<first>> \o OrderByDateCachedDesc(rows \ {first})

\* LIMIT n
Limit(rows, n) == IF Len(rows) <= n THEN rows ELSE SubSeq(rows, 1, n)

\* FindSimilarVideos(resolution, duration, codec, tolerance)
FindSimilarVideos(resolution, d, codec, tol) ==
    /\ now < MaxTime
    /\ Enabled
    /\ Completed([Op("FindSimilarVideos", "", << >>, FALSE, FALSE,
                     NoAnalysis, NoVideoFile, now)
                     EXCEPT !.query = <<resolution, d, codec, tol>>,
                            !.entries =
                                Limit(OrderByDateCachedDesc(
                                          SimilarRows(video_analysis,
                                                      resolution, d, codec,
                                                      tol)),
                                      SimilarLimit)])
    /\ now' = now + 1
    /\ UNCHANGED <<files, video_analysis, MaxAgeHours, zone, engineVars,
                   callerVars, pipeVars,
                   analyzerVars>>

NextSimilar ==
    \/ \E p \in Paths, v \in SimilarVideoFiles :
           Put(p, CHOOSE a \in Analyses : a.ContentType = "LiveAction", v)
    \/ \E p \in Paths : Get(p)
    \/ \E res \in SimilarResolutions, d \in SimilarDurations,
          codec \in SimilarCodecs, tol \in Tolerances :
           FindSimilarVideos(res, d, codec, tol)
    \/ \E h \in AgeChoices : SetMaxAge(h)
    \/ \E p \in Paths : ModifyFile(p)
    \/ Tick

(***************************************************************************)
(* processSingleFile: the per-file pipeline around the cache.              *)
(***************************************************************************)
PipeInit ==
    /\ ppc = "idle"
    /\ inputFile = ""
    /\ useCache \in BOOLEAN
    /\ cacheUsed = FALSE
    /\ analysis = NoAnalysis
    /\ videoFile = NoVideoFile
    /\ warnings = {}
    /\ pipelineErr = "nil"

\* a call of processSingleFile begins
ProcessSingleFile(p) ==
    /\ ppc \in {"idle", "done", "failed"}
    /\ ppc' = IF useCache THEN "cache_get" ELSE "analyze"
    /\ inputFile' = p
    /\ cacheUsed' = FALSE
    /\ analysis' = NoAnalysis
    /\ videoFile' = NoVideoFile
    /\ warnings' = {}
    /\ pipelineErr' = "nil"
    /\ UNCHANGED <<useCache, engineVars, cacheVars, callerVars,
                   analyzerVars>>

\* a Get error stops the pipeline
AfterCacheGetPropagates(e, hit) ==
    IF e # "nil" THEN "failed" ELSE IF hit THEN "settings" ELSE "analyze"
\* if err != nil { logger.Warning }; if !cacheUsed { analyse }
AfterCacheGet(e, hit) == IF hit THEN "settings" ELSE "analyze"

\* analysis, videoFile, cacheUsed, err = videoCache.Get(inputFile)
PipelineCacheGet ==
    /\ ppc = "cache_get"
    /\ GetCall(inputFile)
    /\ cacheUsed' = last'.hit
    /\ analysis' = last'.analysis
    /\ videoFile' = last'.videoInfo
    /\ warnings' = IF last'.err # "nil"
                   THEN warnings \cup {<<"Error reading from cache", last'.err>>}
                   ELSE warnings
    /\ ppc' = AfterCacheGet(last'.err, last'.hit)
    /\ UNCHANGED <<inputFile, useCache, pipelineErr, analyzerVars>>

\* GetVideoInfo and AnalyzeVideo: either can fail the pipeline
PipelineAnalyze ==
    /\ ppc = "analyze"
    /\ \/ \E a \in Analyses, v \in VideoFiles :
              /\ analysis' = a
              /\ videoFile' = v
              /\ ppc' = IF useCache THEN "cache_put" ELSE "settings"
              /\ UNCHANGED pipelineErr
       \/ \E e \in {"video_info", "analyze"} :
              /\ ppc' = "failed"
              /\ pipelineErr' = e
              /\ UNCHANGED <<analysis, videoFile>>
    /\ UNCHANGED <<inputFile, useCache, cacheUsed, warnings,
                   engineVars, cacheVars, callerVars, analyzerVars>>

\* err = videoCache.Put(inputFile, analysis, videoFile)
PipelineCachePut ==
    /\ ppc = "cache_put"
    /\ PutCall(inputFile, analysis, videoFile)
    /\ warnings' = IF last'.err # "nil"
                   THEN warnings \cup {<<"Failed to cache analysis", last'.err>>}
                   ELSE warnings
    /\ ppc' = "settings"
    /\ UNCHANGED <<inputFile, useCache, cacheUsed, analysis, videoFile,
                   pipelineErr, analyzerVars>>

\* GetCompressionSettings, then CompressVideo
PipelineCompress ==
    /\ ppc = "settings"
    /\ \/ /\ ppc' = "done"
          /\ UNCHANGED pipelineErr
       \/ \E e \in {"settings", "compress"} :
              /\ ppc' = "failed"
              /\ pipelineErr' = e
    /\ UNCHANGED <<inputFile, useCache, cacheUsed, analysis, videoFile,
                   warnings, engineVars, cacheVars, callerVars,
                   analyzerVars>>

NextPipeline ==
    \/ \E p \in Paths : ProcessSingleFile(p)
    \/ PipelineCacheGet
    \/ PipelineAnalyze
    \/ PipelineCachePut
    \/ PipelineCompress
    \/ \E p \in Paths : ModifyFile(p)
    \/ Tick

(***************************************************************************)
(* The content analyzer: AnalyzeVideo fills a VideoAnalysis from the       *)
(* probed video, GetCompressionSettings turns it and the quality level     *)
(* into the settings map.  content_analyzer.go holds the package twice;    *)
(* calculateOptimalBitrate and determineOptimalCodec are the same in both, *)
(* GetCompressionSettings differs, and build says which one is compiled.   *)
(***************************************************************************)
AllContentTypes == {"Unknown", "Animation", "Screencast", "Gaming",
                    "LiveAction", "SportsAction", "Documentary"}
Builds == {"first", "second"}
QualityLevels == 1 .. 5
\* probed streams: width, height; r_frame_rate ("0/0" leaves FPS at 0)
Dimensions == {<<320, 240>>, <<1280, 720>>, <<3840, 2160>>, <<7680, 4320>>}
FrameRates == {0, 30, 60}
\* videoFile.Duration in seconds
AnalyzerDurations == {30, 60}
\* len(sceneChanges) and the frame complexity measured on the samples
SceneChangeCounts == {1, 3, 9, 12}
FrameComplexities == {100, 300, 700, 1000}
PresetNames == {"fast", "balanced", "thorough"}

MinBitrate == 500000
MaxBitrate == 15000000

\* strconv.Itoa and fmt.Sprintf("%d") of a non-negative int: decimal digits
Digits == <<"0", "1", "2", "3", "4", "5", "6", "7", "8", "9">>

RECURSIVE Itoa(_)
Itoa(n) == IF n < 10 THEN <<Digits[n + 1]>>
           ELSE Itoa(n \div 10) \o <<Digits[(n % 10) + 1]>>

DigitValue(c) == (CHOOSE i \in 1 .. 10 : Digits[i] = c) - 1

\* strconv.Atoi of a string of decimal digits
RECURSIVE Atoi(_)
Atoi(s) == IF s = << >> THEN 0
           ELSE 10 * Atoi(SubSeq(s, 1, Len(s) - 1)) + DigitValue(s[Len(s)])

NoVideoAnalysis == [ContentType |-> "Unknown", SceneChanges |-> 0,
                    FrameComplexity |-> 0, MotionComplexity |-> "",
                    RecommendedCodec |-> "", OptimalBitrate |-> 0]
\* a key the map does not hold reads as the empty string
NoSettings == [codec |-> "", crf |-> << >>, preset |-> "", threads |-> << >>]

\* determineMotionComplexity(videoFile, sceneChanges, frameComplexity):
\* sceneChangesPerMinute = sceneChanges / (Duration / 60) is compared
\* with k as sceneChanges * 60 < k * Duration
determineMotionComplexity(vi, sceneChanges, frameComplexity) ==
    LET PerMinuteBelow(k) == IF vi.Duration <= 0 THEN sceneChanges < k
                             ELSE sceneChanges * 60 < k * vi.Duration
    IN IF PerMinuteBelow(2) /\ frameComplexity < 200 THEN "Low"
       ELSE IF PerMinuteBelow(5) /\ frameComplexity < 500 THEN "Medium"
       ELSE IF PerMinuteBelow(10) /\ frameComplexity < 1000 THEN "High"
       ELSE "VeryHigh"

\* determineOptimalCodec(videoFile, contentType)
determineOptimalCodec(vi, ct) ==
    IF vi.IsHDR THEN "hevc"
    ELSE CASE ct = "Animation" -> "vp9"
           [] ct = "Screencast" -> "hevc"
           [] ct \in {"Gaming", "SportsAction"} ->
                  IF vi.Height >= 1080 THEN "hevc" ELSE "h264"
           [] OTHER -> IF vi.Height >= 1440 THEN "hevc" ELSE "h264"

\* the factor of pixelCount * FPS per content type, in units of 1/100000
BaseBitrateFactor(ct) ==
    CASE ct = "Screencast" -> 10
      [] ct = "Animation" -> 15
      [] ct = "Gaming" -> 30
      [] ct = "SportsAction" -> 35
      [] OTHER -> 25

\* motionFactor, in tenths
MotionFactor(mc) ==
    CASE mc = "Low" -> 7
      [] mc = "Medium" -> 10
      [] mc = "High" -> 13
      [] mc = "VeryHigh" -> 16
      [] OTHER -> 10

\* codecFactor, in tenths
CodecFactor(codec) ==
    CASE codec = "h264" -> 10
      [] codec = "hevc" -> 6
      [] codec = "vp9" -> 7
      [] codec = "av1" -> 5
      [] OTHER -> 10

\* the boundaries left out: the adjusted bitrate is returned as it is
ApplyNoBoundaries(adjustedBitrate) == adjustedBitrate

\* if adjustedBitrate < minBitrate {..} else if adjustedBitrate > maxBitrate
\* {..}, on a bitrate in units of 1/100 bps
ApplyBoundaries(adjustedBitrate) ==
    IF adjustedBitrate < MinBitrate * 100 THEN MinBitrate * 100
    ELSE IF adjustedBitrate > MaxBitrate * 100 THEN MaxBitrate * 100
    ELSE adjustedBitrate

\* calculateOptimalBitrate(videoFile, analysis): the float64 product is
\* carried in units of 1/100 bps; int64(...) truncates to whole bps
calculateOptimalBitrate(vi, a) ==
    LET pixelCount == vi.Width * vi.Height
        baseBitrate == ((pixelCount * vi.FPS) \div 1000)
                       * BaseBitrateFactor(a.ContentType)
        adjustedBitrate ==
            (((baseBitrate * MotionFactor(a.MotionComplexity)) \div 10)
             * CodecFactor(a.RecommendedCodec)) \div 10
    IN ApplyBoundaries(adjustedBitrate) \div 100

\* AnalyzeVideo: detectContentType yields ct from the sampled frames,
\* DetectSceneChanges and CalculateFrameComplexity yield sc and fc; motion
\* complexity, codec and bitrate are computed from them
AnalyzeVideo(ct, sc, fc) ==
    /\ anpc = "idle"
    /\ LET a1 == [NoVideoAnalysis EXCEPT
                     !.ContentType = ct,
                     !.SceneChanges = sc,
                     !.FrameComplexity = fc,
                     !.MotionComplexity =
                         determineMotionComplexity(videoInfo, sc, fc)]
           a2 == [a1 EXCEPT !.RecommendedCodec =
                                determineOptimalCodec(videoInfo, ct)]
       IN videoAnalysis' =
              [a2 EXCEPT !.OptimalBitrate =
                             calculateOptimalBitrate(videoInfo, a2)]
    /\ anpc' = "analyzed"
    /\ UNCHANGED <<build, videoInfo, qualityLevel, settings, presetName,
                   engineVars, cacheVars, callerVars, pipeVars>>

\* contentAdjustment of the first GetCompressionSettings
ContentAdjustment(ct) ==
    CASE ct = "Screencast" -> 3
      [] ct = "Animation" -> 1
      [] ct = "Gaming" -> -1
      [] ct = "SportsAction" -> -2
      [] OTHER -> 0

\* if crf < lo { crf = lo } else if crf > hi { crf = hi }
ClampCRF(crf, lo, hi) == IF crf < lo THEN lo ELSE IF crf > hi THEN hi ELSE crf

\* the first GetCompressionSettings: one case per recommended codec
GetCompressionSettingsByCodec(a, quality) ==
    LET qualityAdjustment == (3 - quality) * 3
    IN CASE a.RecommendedCodec = "h264" ->
              [codec |-> "libx264",
               preset |-> <<"veryslow", "slower", "medium", "fast",
                            "ultrafast">>[quality],
               crf |-> Itoa(ClampCRF(23 + qualityAdjustment
                                     + ContentAdjustment(a.ContentType),
                                     18, 28)),
               threads |-> Itoa(0)]
         [] a.RecommendedCodec = "hevc" ->
              [codec |-> "libx265",
               preset |-> <<"veryslow", "slow", "medium", "fast",
                            "ultrafast">>[quality],
               crf |-> Itoa(ClampCRF(28 + qualityAdjustment
                                     + ContentAdjustment(a.ContentType),
                                     20, 32)),
               threads |-> Itoa(0)]
         [] a.RecommendedCodec = "vp9" ->
              [codec |-> "libvpx-vp9",
               preset |-> "",
               crf |-> Itoa(ClampCRF(31 + qualityAdjustment, 15, 35)),
               threads |-> Itoa(0)]
         [] OTHER -> [NoSettings EXCEPT !.threads = Itoa(0)]

\* selectCodec(contentType)
selectCodec(ct) ==
    IF ct \in {"Screencast", "Animation"} THEN "libx265" ELSE "libx264"

\* calculateCRF(contentType, motionComplexity, qualityLevel)
calculateCRF(ct, mc, q) ==
    LET byContent == CASE ct = "Screencast" -> 28
                       [] ct = "Animation" -> 26
                       [] ct = "Gaming" -> 23
                       [] ct \in {"LiveAction", "Documentary"} -> 20
                       [] OTHER -> 23
        baseCRF == IF mc = "High" THEN byContent - 2
                   ELSE IF mc = "Low" THEN byContent + 2
                   ELSE byContent
        qualityAdjustment == (3 - q) * 2
    IN Itoa(ClampCRF(baseCRF + qualityAdjustment, 18, 32))

\* selectPreset(qualityLevel, motionComplexity)
selectPreset(q, mc) ==
    CASE q = 1 -> IF mc = "High" THEN "veryslow" ELSE "slower"
      [] q = 2 -> "slow"
      [] q = 3 -> "medium"
      [] q = 4 -> "fast"
      [] q = 5 -> "ultrafast"
      [] OTHER -> "medium"

\* the second GetCompressionSettings: codec by content type, one CRF rule
GetCompressionSettingsByContent(a, q) ==
    [codec |-> selectCodec(a.ContentType),
     crf |-> calculateCRF(a.ContentType, a.MotionComplexity, q),
     preset |-> selectPreset(q, a.MotionComplexity),
     threads |-> << >>]

\* contentAnalyzer.GetCompressionSettings(analysis, quality)
GetCompressionSettings ==
    /\ anpc = "analyzed"
    /\ settings' = IF build = "first"
                   THEN GetCompressionSettingsByCodec(videoAnalysis,
                                                      qualityLevel)
                   ELSE GetCompressionSettingsByContent(videoAnalysis,
                                                        qualityLevel)
    /\ anpc' = "settings"
    /\ UNCHANGED <<build, videoInfo, videoAnalysis, qualityLevel, presetName,
                   engineVars, cacheVars, callerVars, pipeVars>>

\* the preset that adjustSettingsForPreset writes for preset "fast"
FasterPreset(currentPreset) ==
    IF currentPreset = "veryslow" THEN "medium"
    ELSE IF currentPreset \in {"slower", "slow"} THEN "fast"
    ELSE IF currentPreset = "medium" THEN "veryfast"
    ELSE "ultrafast"

\* the preset that adjustSettingsForPreset writes for preset "thorough"
SlowerPreset(currentPreset) ==
    IF currentPreset \in {"ultrafast", "veryfast"} THEN "medium"
    ELSE IF currentPreset \in {"fast", "medium"} THEN "slow"
    ELSE "veryslow"

\* the CRF that adjustSettingsForPreset leaves for preset "thorough":
\* if crf, ok := settings["crf"]; ok { if crfValue > 20 { crfValue - 2 } }
ThoroughCRF(crf) ==
    IF crf # << >> /\ Atoi(crf) > 20 THEN Itoa(Atoi(crf) - 2) ELSE crf

\* CompressVideo up to its dispatch: vc.adjustSettingsForPreset(settings,
\* preset) on the settings the caller passed
adjustSettingsForPreset(p) ==
    /\ anpc = "settings"
    /\ presetName' = p
    /\ settings' =
           CASE p = "fast" ->
                  [settings EXCEPT !.preset = FasterPreset(settings.preset),
                                   !.threads = Itoa(NumSegments)]
             [] p = "thorough" ->
                  [settings EXCEPT !.preset = SlowerPreset(settings.preset),
                                   !.crf = ThoroughCRF(settings.crf)]
             [] OTHER -> settings
    /\ anpc' = "adjusted"
    /\ UNCHANGED <<build, videoInfo, videoAnalysis, qualityLevel, engineVars,
                   cacheVars, callerVars, pipeVars>>

NextAnalyzer ==
    \/ \E ct \in AllContentTypes, sc \in SceneChangeCounts,
          fc \in FrameComplexities :
           AnalyzeVideo(ct, sc, fc)
    \/ GetCompressionSettings
    \/ \E p \in PresetNames : adjustSettingsForPreset(p)

\* the analyzer is not running
AnalyzerIdle ==
    /\ anpc = "idle"
    /\ build = "first"
    /\ videoInfo = [Width |-> 1280, Height |-> 720, FPS |-> 30,
                    IsHDR |-> FALSE, Duration |-> 60]
    /\ videoAnalysis = NoVideoAnalysis
    /\ qualityLevel = 3
    /\ settings = NoSettings
    /\ presetName = "balanced"

\* a probed video and a validated quality flag, before AnalyzeVideo
AnalyzerInit ==
    /\ anpc = "idle"
    /\ build \in Builds
    /\ \E d \in Dimensions, fps \in FrameRates, hdr \in BOOLEAN,
          secs \in AnalyzerDurations :
           videoInfo = [Width |-> d[1], Height |-> d[2], FPS |-> fps,
                        IsHDR |-> hdr, Duration |-> secs]
    /\ videoAnalysis = NoVideoAnalysis
    /\ qualityLevel \in QualityLevels
    /\ settings = NoSettings
    /\ presetName = "balanced"

(***************************************************************************)
(* The caller abandons a parallel compress call.  CompressVideo takes no   *)
(* context and the program handles no signal: the only way to abandon the  *)
(* call is to terminate the process, which ends every goroutine without    *)
(* running deferred calls and sends nothing to the encoders it started.    *)
(***************************************************************************)
Abort ==
    /\ ~panicked
    /\ segmentDir = "exists"
    /\ pc # "returned"
    /\ pc' = "aborted"
    /\ panicked' = TRUE
    /\ UNCHANGED <<inputVars, settingsVars,
                   result, segmentDir, listVars, wpc, errorChan,
                   progressChan, chanClosed, monitorVars, aggVars, sink,
                   cacheVars, callerVars, pipeVars,
                   analyzerVars>>

Next ==
    \/ CompressVideo
    \/ ParallelMain
    \/ \E w \in Workers : Worker(w)
    \/ AggregatorReceive
    \/ AggregatorExit
    \/ SinglePass

Init ==
    EngineInit /\ CacheInit /\ PipeInit /\ useCache = TRUE /\ AnalyzerIdle

Spec == Init /\ [][Next]_vars

\* the engine under Go's scheduler: a goroutine that can run does run, a
\* started encoder exits, so no step that stays possible is put off forever
Fairness ==
    /\ WF_vars(CompressVideo)
    /\ WF_vars(ParallelMain)
    /\ \A w \in Workers : WF_vars(Worker(w))
    /\ WF_vars(AggregatorReceive)
    /\ WF_vars(AggregatorExit)
    /\ WF_vars(SinglePass)

SpecFair == Init /\ [][Next]_vars /\ Fairness

\* the engine with a caller that can abandon the call
SpecAbort == Init /\ [][Next \/ Abort]_vars

\* a parallel compress call whose monitors read a token at 40%
EarlyWorker(w) ==
    \/ StartSegment(w)
    \/ CmdWait(w)
    \/ SegmentDone(w)
    \/ ListWriteLock(w)
    \/ ListWrite(w)
    \/ MonitorReadEarly(w)
    \/ MonitorReport(w)

NextEarly ==
    \/ CompressVideo
    \/ ParallelMain
    \/ \E w \in Workers : EarlyWorker(w)
    \/ AggregatorReceive
    \/ AggregatorExit

EarlyInit ==
    /\ Init
    /\ duration = 90
    /\ contentType = "LiveAction"

SpecEarly == EarlyInit /\ [][NextEarly]_vars

\* the cache on its own: the engine is not running
CacheOnlyInit ==
    /\ EngineInit
    /\ duration = 60
    /\ contentType = "Screencast"
    /\ CacheInit
    /\ PipeInit
    /\ useCache = TRUE
    /\ AnalyzerIdle

SpecCache == CacheOnlyInit /\ [][NextCache]_vars

\* the cache as the command leaves it after configuring it:
\* SetMaxAge(cacheMaxAge * 24) has been called
CacheConcInit ==
    /\ EngineInit
    /\ duration = 60
    /\ contentType = "Screencast"
    /\ files = [p \in Paths |-> [size |-> 1, modTime |-> 0]]
    /\ video_analysis = {}
    /\ MaxAgeHours \in AgeChoices
    /\ now = 1
    /\ last = NoOp
    /\ prev = NoOp
    /\ cpc = [c \in Clients |-> "idle"]
    /\ fingerprint = [c \in Clients |-> << >>]
    /\ dateCached = [c \in Clients |-> 0]
    /\ zone = "UTC"
    /\ PipeInit
    /\ useCache = TRUE
    /\ AnalyzerIdle

SpecCacheConc == CacheConcInit /\ [][NextCacheConc]_vars

\* processSingleFile called for one file after another; the cache has been
\* created and configured, or could not be created (useCache = FALSE)
PipelineInit ==
    /\ EngineInit
    /\ duration = 60
    /\ contentType = "Screencast"
    /\ CacheInit
    /\ PipeInit
    /\ AnalyzerIdle

SpecPipeline == PipelineInit /\ [][NextPipeline]_vars

SpecFingerprint == CacheOnlyInit /\ [][NextFingerprint]_vars

SpecSimilar == CacheOnlyInit /\ [][NextSimilar]_vars

\* the analyzer on its own: neither the engine nor the cache is running
AnalyzerOnlyInit ==
    /\ EngineInit
    /\ duration = 60
    /\ contentType = "Screencast"
    /\ CacheInit
    /\ PipeInit
    /\ useCache = TRUE
    /\ AnalyzerInit

SpecAnalyzer == AnalyzerOnlyInit /\ [][NextAnalyzer]_vars

(***************************************************************************)
(* Properties of the compression engine (checked under Spec).              *)
(***************************************************************************)
\* the list in temporal order: segment 0, 1, ..., NumSegments - 1
SegmentOrder == [i \in 1 .. NumSegments |-> i - 1]

\* C1: when the concat list is handed to the merger it holds exactly one line
\* per segment, in ascending segment index order, whatever order the workers
\* finished in.
C1_ConcatListInSegmentOrder ==
    pc = "merge" => listFile = SegmentOrder

\* C2: the percent values delivered to the outer progress sink never decrease,
\* and after a successful compress call the last value delivered is 100.
C2_ProgressMonotoneEndsAt100 ==
    /\ [][sink' >= sink]_vars
    /\ [](pc = "returned" /\ result = NoError => sink = 100)

\* C3: once the parallel path has created its segments directory, every
\* return of the call leaves the directory removed.
C3_SegmentDirRemovedOnReturn ==
    pc = "returned" => segmentDir # "exists"

\* C3 witness: the call returned a worker's error after the directory had
\* been created, and the directory is gone.
C3_Witness ==
    /\ pc = "returned"
    /\ result.kind = "segment"
    /\ segmentDir = "removed"

\* C4: once a worker's error has been sent, no other worker's encoder run goes
\* on to complete (the remaining workers are cancelled), and the error the
\* call returns is the first one sent.
C4_FirstErrorCancelsWorkers ==
    [][errorChan # << >> =>
          /\ \A w \in Workers : wpc[w] = "encoding" => wpc'[w] = "encoding"
          /\ (pc # "returned" /\ pc' = "returned" => result' = Head(errorChan))
      ]_vars

\* C5: no two workers write to the concat list file at the same time: a worker
\* that is writing holds the file's write lock, and at most one worker is
\* writing.
C5_ListWritesSerialized ==
    \A w1 \in Workers :
        wpc[w1] = "write" =>
            /\ fdmu = w1
            /\ \A w2 \in Workers : wpc[w2] = "write" => w2 = w1

\* C5 witness: one worker is writing its line while another, its encode also
\* finished, waits for the lock.
C5_Witness ==
    \E w1, w2 \in Workers :
        /\ w1 # w2
        /\ wpc[w1] = "write"
        /\ wpc[w2] = "lock"

(***************************************************************************)
(* Properties of the analysis cache.                                       *)
(***************************************************************************)
RowIds(table) == {r.id : r \in table}

\* C6: concurrent Get/Put on one fingerprint behave as if executed one at
\* a time and leave the entry of the last Put: when a Get completes its
\* invalidation, the entry it turns invalid is one that is too old.
C6_GetInvalidatesOnlyExpired ==
    [][\A c \in Clients :
           cpc[c] = "invalidate" /\ cpc'[c] = "idle" =>
               \A r \in video_analysis :
                   r.id = fingerprint[c] /\ r.valid =>
                       TooOld(r.date_cached, now, MaxAgeHours)
      ]_vars

C10_RowsDeletedOnlyByCleanOrClear ==
    [][RowIds(video_analysis) \ RowIds(video_analysis') # {} =>
           last'.op \in {"CleanExpiredEntries", "ClearAll"}]_vars

\* C10: a row leaves the table only in CleanExpiredEntries, in the
\* clearing of the whole table, or in InvalidateByPath, which deletes the
\* row of the path's fingerprint; expiry found by Get keeps every row.
C10_RowsDeletedOnlyByCleanClearOrInvalidate ==
    [][/\ RowIds(video_analysis) \ RowIds(video_analysis') # {} =>
              last'.op \in {"CleanExpiredEntries", "ClearAll",
                            "InvalidateByPath"}
       /\ (last'.op = "InvalidateByPath" /\ last' # last) =>
              last'.id \notin RowIds(video_analysis')
      ]_vars

C10_Witness ==
    /\ last.op = "InvalidateByPath"
    /\ prev.op = "Put" /\ prev.id = last.id
    /\ last.id \notin RowIds(video_analysis)


\* C11: a failure inside Get (the stat for the fingerprint, the query, the
\* deserialisation of a blob) reaches the caller as a miss and not as an
\* error: Get never returns an error.
C11_GetFailureIsMissNotError ==
    last.op = "Get" => last.err = "nil"


(***************************************************************************)
(* Properties of the per-file pipeline.                                    *)
(***************************************************************************)
CacheErrors == (GetFailures \cup PutFailures) \ {"none"}

\* C12: a failure of the cache's Get or Put never fails processSingleFile:
\* the error is logged as a warning, after a failed Get the file is
\* analysed, after a failed Put the pipeline goes on to the settings and
\* the compression, and the error the pipeline returns is never the cache's.
C12_CacheFailureNeverFailsPipeline ==
    /\ [][/\ (ppc = "cache_get" /\ ppc' # ppc /\ last'.err # "nil") =>
                 /\ ppc' = "analyze"
                 /\ <<"Error reading from cache", last'.err>> \in warnings'
          /\ (ppc = "cache_put" /\ ppc' # ppc /\ last'.err # "nil") =>
                 /\ ppc' = "settings"
                 /\ <<"Failed to cache analysis", last'.err>> \in warnings'
        ]_vars
    /\ [](pipelineErr \notin CacheErrors)

C12_Witness ==
    /\ ppc = "done"
    /\ <<"Error reading from cache", "query">> \in warnings
    /\ <<"Failed to cache analysis", "exec">> \in warnings
    /\ pipelineErr = "nil"


(***************************************************************************)
(* Properties of the fingerprint.                                          *)
(***************************************************************************)
\* C13: a Get of p that directly follows a replacement of the file at p
\* which changed its modification time is a miss; and a file whose path,
\* size and modification time are those a row was stored with has that
\* row's id as its fingerprint.
C13_ModTimeChangeMissesSameFileSameFingerprint ==
    /\ (/\ last.op = "Get" /\ last.err = "nil"
        /\ prev.op = "OverwriteFile" /\ prev.path = last.path) => ~last.hit
    /\ \A r \in video_analysis : \A p \in Paths :
           (/\ r.video_path = p
            /\ r.size_bytes = files[p].size
            /\ r.mod_time = files[p].modTime) =>
               r.id = GetVideoFingerprint(p, files[p])


(***************************************************************************)
(* Properties of FindSimilarVideos.                                        *)
(***************************************************************************)
\* C14: FindSimilarVideos(res, d, codec, tol) returns at most 5 entries,
\* each with its valid flag set and its age within MaxAgeHours, with the
\* resolution and the codec asked for and a duration within
\* [d(1 - tol), d(1 + tol)], the most recently cached first.
C14_FindSimilarReturnsValidMatchesNewestFirst ==
    last.op = "FindSimilarVideos" =>
        LET found == last.entries
            q == last.query
        IN /\ Len(found) <= SimilarLimit
           /\ \A i \in 1 .. Len(found) :
                  /\ found[i].valid
                  /\ ~TooOld(found[i].date_cached, last.t, MaxAgeHours)
                  /\ found[i].resolution = q[1]
                  /\ DurationBetween(found[i].duration, q[2], q[4])
                  /\ found[i].codec = q[3]
           /\ \A i, j \in 1 .. Len(found) :
                  i < j => found[i].date_cached >= found[j].date_cached


(***************************************************************************)
(* Properties of the strategy selection.                                   *)
(***************************************************************************)
\* C15: CompressVideo takes the parallel path exactly when the duration is
\* above 60 s and the content type is not Screencast; a Screencast is
\* always encoded single-pass.
C15_ParallelIffLongAndNotScreencast ==
    [][(pc = "start" /\ pc' # "start") =>
           /\ pc' \in {"parallel", "single"}
           /\ pc' = "parallel" <=> (duration > 60 /\ contentType # "Screencast")
           /\ contentType = "Screencast" => pc' = "single"
      ]_vars

C15_Witness ==
    /\ pc = "single_wait"
    /\ duration > 60
    /\ contentType = "Screencast"


(***************************************************************************)
(* Properties of the encoder's errors.                                     *)
(***************************************************************************)
\* C16: when the call returns the error of an encoder that exited
\* non-zero, single-pass or in a segment worker, the error carries all of
\* the encoder's stderr output.
C16_ExitErrorCarriesFullStderr ==
    (pc = "returned" /\ result.nonZeroExit) => result.stderr = "complete"


(***************************************************************************)
(* Properties of the progress parsers.                                     *)
(***************************************************************************)
\* the step in which the parser of monitor w passes its percent on
ParserDelivers(w) ==
    /\ mpc[w] = "parsed"
    /\ mpc'[w] = "reading"
    /\ \/ lastProgressReported'[w] # lastProgressReported[w]
       \/ progressChan' # progressChan
       \/ panicked' # panicked

\* C17: a progress parser passes a percent on only when it is above the
\* last percent it passed on, or when it is 100.
C17_ParserDeliversOnlyAdvanceOr100 ==
    [][\A w \in Workers :
           ParserDelivers(w) =>
               \/ percentComplete[w] > lastProgressReported[w]
               \/ percentComplete[w] = 100
      ]_vars


(***************************************************************************)
(* Properties of an abandoned call.                                        *)
(***************************************************************************)
\* C18: once the caller has abandoned a parallel compress call, no worker's
\* encoder is left running and the segments directory is removed.
C18_AbortKillsEncodersReleasesDir ==
    pc = "aborted" =>
        /\ \A w \in Workers : wpc[w] # "encoding"
        /\ segmentDir # "exists"


C20_CRFWithinEncoderRange ==
    anpc = "settings" =>
        /\ settings.codec = "libx264" =>
               Atoi(settings.crf) >= 18 /\ Atoi(settings.crf) <= 28
        /\ settings.codec = "libx265" =>
               Atoi(settings.crf) >= 20 /\ Atoi(settings.crf) <= 32
        /\ settings.codec = "libvpx-vp9" =>
               Atoi(settings.crf) >= 15 /\ Atoi(settings.crf) <= 35


\* C21: with preset thorough the adjustment lowers the CRF by 2 but not
\* below 18, whatever CRF the settings carry: the new CRF is the larger of
\* the old CRF minus 2 and 18.
C21_ThoroughLowersCRFByTwoFloor18 ==
    [][(/\ anpc = "settings"
        /\ anpc' = "adjusted"
        /\ presetName' = "thorough"
        /\ settings.crf # << >>) =>
           Atoi(settings'.crf) = IF Atoi(settings.crf) - 2 < 18 THEN 18
                                 ELSE Atoi(settings.crf) - 2
      ]_vars

\* C22: the encoder in the settings belongs to the family of the codec the
\* analysis recommends: h264 gives libx264, hevc gives libx265, vp9 gives
\* libvpx-vp9.
C22_EncoderFollowsRecommendedCodec ==
    anpc \in {"settings", "adjusted"} =>
        /\ videoAnalysis.RecommendedCodec = "h264" =>
               settings.codec = "libx264"
        /\ videoAnalysis.RecommendedCodec = "hevc" =>
               settings.codec = "libx265"
        /\ videoAnalysis.RecommendedCodec = "vp9" =>
               settings.codec = "libvpx-vp9"

\* C27: with scm = scene changes / max(duration in minutes, 1) and frame
\* complexity fc, motion complexity is Low when scm < 2 and fc < 200,
\* otherwise Medium when scm < 5 and fc < 500, otherwise High when scm < 10
\* and fc < 1000, otherwise VeryHigh.
C27_MotionComplexityThresholds ==
    anpc # "idle" =>
        LET sc == videoAnalysis.SceneChanges
            fc == videoAnalysis.FrameComplexity
            \* scm < k, with minutes = Duration / 60 raised to at least 1
            ScmBelow(k) == IF videoInfo.Duration <= 60 THEN sc < k
                           ELSE sc * 60 < k * videoInfo.Duration
        IN videoAnalysis.MotionComplexity =
               IF ScmBelow(2) /\ fc < 200 THEN "Low"
               ELSE IF ScmBelow(5) /\ fc < 500 THEN "Medium"
               ELSE IF ScmBelow(10) /\ fc < 1000 THEN "High"
               ELSE "VeryHigh"

\* C30: for every analysis, quality level 1..5 and preset name, the CRF
\* left in the settings after the preset adjustment lies in 18..28 for
\* libx264, in 20..32 for libx265 and in 15..35 for libvpx-vp9.
C30_AdjustedCRFWithinEncoderRange ==
    anpc = "adjusted" =>
        /\ settings.codec = "libx264" =>
               Atoi(settings.crf) >= 18 /\ Atoi(settings.crf) <= 28
        /\ settings.codec = "libx265" =>
               Atoi(settings.crf) >= 20 /\ Atoi(settings.crf) <= 32
        /\ settings.codec = "libvpx-vp9" =>
               Atoi(settings.crf) >= 15 /\ Atoi(settings.crf) <= 35


(***************************************************************************)
(* Properties of the aggregator and of the join (checked under SpecEarly   *)
(* and Spec).                                                              *)
(***************************************************************************)
\* the step in which the aggregator takes a message and changes the sink
AggregatorDelivers ==
    /\ progressChan # << >>
    /\ progressChan' = Tail(progressChan)
    /\ sink' # sink

\* C23: every value the aggregator delivers to the sink is the whole part
\* of S / N * 0.9, S being the sum of the latest percents of the N
\* segments, and so is not above 90.
C23_AggregatorDeliversFloorOfAverage ==
    [][AggregatorDelivers =>
           /\ sink' = (SumTo(segmentProgress', NumSegments - 1) * 90)
                           \div (NumSegments * 100)
           /\ sink' <= 90
      ]_vars


\* worker w has finished without writing its line: its encode or its
\* list write failed
WorkerFailed(w) ==
    /\ wpc[w] = "done"
    /\ \A i \in 1 .. Len(listFile) : listFile[i] # w

\* the merger has been invoked
MergeInvoked ==
    \/ pc = "merge"
    \/ /\ pc = "returned"
       /\ UseParallelCompression(duration, contentType)
       /\ result.kind \in {"nil", "merge"}

\* C24: the merger is invoked only after every worker has finished and none
\* of them failed in its encode or its list write; when a worker failed the
\* merger is not invoked and 100 is not delivered to the sink.
C24_MergeOnlyAfterAllWorkersSucceeded ==
    /\ MergeInvoked =>
           \A w \in Workers : wpc[w] = "done" /\ ~WorkerFailed(w)
    /\ (\E w \in Workers : WorkerFailed(w)) =>
           ~MergeInvoked /\ sink # 100

\* a call has returned a worker's error after all workers finished, one of
\* them having failed and the other having written its line
C24_Witness ==
    /\ pc = "returned"
    /\ result.kind \in {"segment", "list_write"}
    /\ \E w \in Workers : WorkerFailed(w)
    /\ \E w \in Workers : wpc[w] = "done" /\ ~WorkerFailed(w)
    /\ sink \notin {90, 100}


\* C25: each worker encodes with a settings map of its own that holds the
\* caller's entries and force_key_frames = "expr:eq(n,0)"; the write shows
\* neither in the caller's map nor in another worker's map.
C25_WorkerOwnsClonedSettings ==
    /\ settingsHeap[CallerRef] = CallerSettings
    /\ \A w \in Workers :
           wpc[w] \notin {"idle", "start"} =>
               /\ segmentSettings[w] # CallerRef
               /\ settingsHeap[segmentSettings[w]] =
                      [CallerSettings EXCEPT
                          !.force_key_frames = "expr:eq(n,0)"]
               /\ \A v \in Workers \ {w} :
                      segmentSettings[v] # segmentSettings[w]

\* every worker has encoded with its map and the call has returned nil
C25_Witness ==
    /\ pc = "returned"
    /\ result.kind = "nil"
    /\ \A w \in Workers :
           /\ segmentSettings[w] = CloneRef(w)
           /\ settingsHeap[CloneRef(w)].force_key_frames = "expr:eq(n,0)"


\* C26: in the parallel path the aggregator alone writes the progress: when
\* the engine itself has delivered 90, and later 100, the aggregator has
\* stopped delivering, so the sink never has two writers at a time.
C26_AggregatorStoppedBeforeEngineDelivers ==
    (\/ pc = "merge"
     \/ /\ pc = "returned"
        /\ UseParallelCompression(duration, contentType)
        /\ result.kind = "nil") =>
        /\ apc = "exited"
        /\ progressChan = << >>


\* the step in which the monitor of segment w calls reportProgress
MonitorSends(w) ==
    /\ UseParallelCompression(duration, contentType)
    /\ mpc[w] = "parsed"
    /\ mpc'[w] = "reading"
    /\ SegmentThrottle(percentComplete[w], lastProgressReported[w])

\* C28: nothing is sent on the progress channel once the engine has closed
\* it: every report for a segment, those of the goroutine reading the
\* encoder's error stream included, is made before the segment's worker
\* counts as done.
C28_NoSendAfterClose ==
    [][\A w \in Workers :
           MonitorSends(w) => wpc[w] # "done" /\ ~chanClosed
      ]_vars


(***************************************************************************)
(* Termination (checked under SpecFair).                                   *)
(***************************************************************************)
\* C29: when every encoder exits, a parallel compress call comes to an end:
\* no worker stays blocked on a send of a progress message or an error, the
\* join on the workers returns, the call returns and the aggregator
\* goroutine has left its loop.
C29_ParallelCallTerminates ==
    UseParallelCompression(duration, contentType) =>
        <>(/\ pc = "returned"
           /\ \A w \in Workers : wpc[w] \in {"idle", "done"}
           /\ apc \in {"none", "exited"})

====
